---- MODULE Spec2Model ----
(***************************************************************************)
(* A model of bagholder-oracle's app.py: the request handler index() (the  *)
(* valuation loop, the sort of the records, the display currency), the     *)
(* quote fetch get_stock_data() and the historical aggregation             *)
(* get_historical_data().                                                  *)
(*                                                                         *)
(* Numbers: quantities, cost bases, prices and closes are integers; the    *)
(* two quotients of the valuation loop (avg_purchase_price and             *)
(* gain_loss_percent) are exact rationals <<num, den>> in lowest terms.    *)
(* Binary floating point rounding is not modelled.                         *)
(***************************************************************************)
EXTENDS Integers, Sequences, FiniteSets, TLC

VARIABLES
    pc,                          \* position of index() in its body
    portfolio_df,                \* rows returned by load_portfolio_from_csv
    stock_data,                  \* result of get_stock_data: ticker -> quote
    idx,                         \* iterrows position (1-based)
    portfolio_details,           \* the list of valuation records
    total_portfolio_value, total_portfolio_cost_basis, total_portfolio_gain_loss,
    rsu_total_value, rsu_total_cost_basis, rsu_total_gain_loss,
    non_rsu_total_value, non_rsu_total_cost_basis, non_rsu_total_gain_loss,
    yf_answer,                   \* what yf.Tickers answered to get_stock_data
    hist_feed,                   \* what yf.download answered
    historical_data,             \* result of get_historical_data
    primary_currency

vars == << pc, portfolio_df, stock_data, idx, portfolio_details,
           total_portfolio_value, total_portfolio_cost_basis, total_portfolio_gain_loss,
           rsu_total_value, rsu_total_cost_basis, rsu_total_gain_loss,
           non_rsu_total_value, non_rsu_total_cost_basis, non_rsu_total_gain_loss,
           yf_answer, hist_feed, historical_data, primary_currency >>

totals == << total_portfolio_value, total_portfolio_cost_basis, total_portfolio_gain_loss,
             rsu_total_value, rsu_total_cost_basis, rsu_total_gain_loss,
             non_rsu_total_value, non_rsu_total_cost_basis, non_rsu_total_gain_loss >>

---------------------------------------------------------------------------
(* Bounds and input domains *)

MaxHoldings == 2
MaxDate == 2

RSU_TICKERS == {"META"}
\* "" is what a blank Ticker cell becomes after astype(str).str.strip()
Tickers == {"", "META", "amd"}
Quantities == {1, 2}
CostBases == {0, 3}
Currencies == {"USD", "EUR"}

Rows == [Ticker : Tickers, Quantity : Quantities, CostBasis : CostBases]

RECURSIVE SeqsUpTo(_, _)
SeqsUpTo(S, n) ==
    IF n = 0 THEN {<<>>}
    ELSE LET shorter == SeqsUpTo(S, n - 1)
         IN  shorter \cup {Append(s, x) : s \in {t \in shorter : Len(t) = n - 1}, x \in S}

Portfolios == SeqsUpTo(Rows, MaxHoldings)

---------------------------------------------------------------------------
(* Arithmetic helpers *)

Abs(n) == IF n < 0 THEN -n ELSE n

RECURSIVE GCD(_, _)
GCD(a, b) == IF b = 0 THEN a ELSE GCD(b, a % b)

\* the exact quotient n / d (d # 0), in lowest terms with a positive denominator
RatDiv(n, d) ==
    LET g == GCD(Abs(n), Abs(d))
        s == IF d < 0 THEN -1 ELSE 1
    IN  << (s * n) \div g, (s * d) \div g >>

RatTimes(r, k) == RatDiv(r[1] * k, r[2])
RatOfInt(n) == << n, 1 >>

RECURSIVE SumOver(_, _)
\* sum of the field f of the records of seq s
SumOver(s, f) == IF s = <<>> THEN 0 ELSE s[1][f] + SumOver(Tail(s), f)

Range(s) == {s[i] : i \in 1..Len(s)}

\* portfolio_df['Ticker'].unique()
UniqueTickers(df) == {df[i].Ticker : i \in 1..Len(df)}

---------------------------------------------------------------------------
(* Prices: a price is a number, None, NaN, or an object for which          *)
(* "price > 0" raises (a non-scalar such as a pandas Series).              *)

Num(n) == [kind |-> "num", val |-> n]
NoneP == [kind |-> "none", val |-> 0]
NaNP == [kind |-> "nan", val |-> 0]
ObjP == [kind |-> "obj", val |-> 0]

\* display names: f"{base} {note}", note "" for a plain name
Name(base, note) == [base |-> base, note |-> note]

---------------------------------------------------------------------------
(* get_stock_data: the provider's answer for one ticker, and the quote     *)
(* entry built from it.                                                    *)

\* what yfinance answers for one ticker: fast_info (last_price, currency,
\* shortName; "" for a missing shortName key), history(period="1d") (its last
\* close, kind "empty" for an empty frame), .info (full_*), or an exception
Resp(raises, last_price, currency, shortName, hist, full_raises, full_currency, full_shortName) ==
    [raises |-> raises, last_price |-> last_price, currency |-> currency,
     shortName |-> shortName, hist |-> hist, full_raises |-> full_raises,
     full_currency |-> full_currency, full_shortName |-> full_shortName]

EmptyHist == [kind |-> "empty", val |-> 0]

Responses ==
    { Resp(FALSE, Num(2), "USD", "", EmptyHist, FALSE, "N/A", ""),
      Resp(FALSE, Num(5), "EUR", "Long Name", EmptyHist, FALSE, "N/A", ""),
      Resp(FALSE, Num(0), "USD", "", EmptyHist, FALSE, "N/A", ""),
      Resp(FALSE, NoneP, "N/A", "", Num(3), FALSE, "EUR", "Long Name"),
      Resp(FALSE, NoneP, "N/A", "", Num(3), TRUE, "N/A", ""),
      Resp(FALSE, NoneP, "USD", "", NaNP, FALSE, "N/A", ""),
      Resp(FALSE, NoneP, "USD", "", ObjP, FALSE, "N/A", ""),
      Resp(FALSE, NoneP, "N/A", "", EmptyHist, FALSE, "N/A", ""),
      Resp(TRUE, NoneP, "N/A", "", EmptyHist, FALSE, "N/A", "") }

Quote(current_price, currency, short_name) ==
    [current_price |-> current_price, currency |-> currency, short_name |-> short_name]

\* the body of the per-ticker try of get_stock_data
TickerQuote(ticker, r) ==
    IF r.raises
    THEN Quote(Num(0), "N/A", Name(ticker, "(Fetch Error)"))
    ELSE LET current_price == r.last_price
             currency == r.currency
             short_name == IF r.shortName = "" THEN ticker ELSE r.shortName
         IN  IF current_price.kind # "none"
             THEN Quote(current_price, currency, Name(short_name, ""))
             ELSE IF r.hist.kind # "empty"
                  THEN IF currency = "N/A" /\ ~r.full_raises
                       THEN Quote(r.hist, r.full_currency,
                                  Name(IF r.full_shortName = "" THEN ticker
                                       ELSE r.full_shortName, ""))
                       ELSE Quote(r.hist, currency, Name(short_name, ""))
                  ELSE Quote(Num(0), currency, Name(short_name, "(Price N/A)"))

\* what the provider did during one call of get_stock_data: yf.Tickers
\* raised (global_raises), or it answered `info` per ticker
Answer(global_raises, info) == [global_raises |-> global_raises, info |-> info]

\* before any call
NoAnswer == Answer(FALSE, << >>)

\* get_stock_data with no handler around the fetch of one ticker: a fetch
\* that raises is caught by the handler of the whole batch
get_stock_data_one_handler(tickers, global_raises, info) ==
    LET valid_tickers == {t \in tickers : t # ""}
    IN  IF global_raises \/ \E t \in valid_tickers : info[t].raises
        THEN [t \in valid_tickers |->
                Quote(Num(0), "N/A", Name(t, "(Global Fetch Error)"))]
        ELSE [t \in valid_tickers |-> TickerQuote(t, info[t])]

\* get_stock_data(tickers) when yf.Tickers answers `info` per ticker, or
\* raises as a whole (global_raises)
get_stock_data(tickers, global_raises, info) ==
    LET valid_tickers == {t \in tickers : t # ""}
    IN  IF global_raises
        THEN [t \in valid_tickers |->
                Quote(Num(0), "N/A", Name(t, "(Global Fetch Error)"))]
        ELSE [t \in valid_tickers |-> TickerQuote(t, info[t])]

---------------------------------------------------------------------------
(* get_historical_data *)

Dates == 1..MaxDate
Closes == {1, 2}

\* d.strftime('%Y-%m-%d') of the Timestamp d days after 2023-12-29, as
\* <<year, month, day>>: the zero-padded string orders as this triple does
Strftime(d) == IF d <= 2 THEN << 2023, 12, 29 + d >> ELSE << 2024, 1, d - 2 >>

\* order of two '%Y-%m-%d' strings
DateStrLess(a, b) ==
    \/ a[1] < b[1]
    \/ a[1] = b[1] /\ a[2] < b[2]
    \/ a[1] = b[1] /\ a[2] = b[2] /\ a[3] < b[3]

NoChart == [present |-> FALSE, dates |-> <<>>, values |-> <<>>, gains |-> <<>>]

\* The answer of yf.download: it raises, or it is a frame whose column
\* layout is a MultiIndex with 'Close' at level 0 ("multi_close0"), at level 1
\* ("multi_close1"), absent ("multi_noclose"), or simple columns with
\* ("simple_close") or without ("simple_noclose") a 'Close' column.
\* cols maps a column of the Close group (a ticker; "Close" itself for the
\* simple layout) to its closes: a function on the dates where the close is
\* not NaN.
Feed(raises, layout, cols) == [raises |-> raises, layout |-> layout, cols |-> cols]

RaisingFeed == Feed(TRUE, "multi_close0", <<>>)

\* the row index of the frame: every date some column has a value on
FrameIndex(cols) == UNION {DOMAIN cols[c] : c \in DOMAIN cols}

\* hist_data_raw.empty
RawEmpty(feed) == DOMAIN feed.cols = {} \/ FrameIndex(feed.cols) = {}

SetMax(S) == CHOOSE x \in S : \A y \in S : y <= x

\* one column after no fill at all
NoFfill(col, index) == col

\* one column after hist_data.ffill(): on every date of the index at or
\* after the column's first close, the last close at or before the date
Ffill(col, index) ==
    [d \in {x \in index : \E e \in DOMAIN col : e <= x} |->
        col[SetMax({e \in DOMAIN col : e <= d})]]

\* portfolio_df.set_index('Ticker')['Quantity'].to_dict(): a later row of
\* the same ticker overwrites an earlier one
QuantityMap(df) ==
    [t \in UniqueTickers(df) |->
        df[SetMax({i \in 1..Len(df) : df[i].Ticker = t})].Quantity]

\* the cost basis of the last row of each ticker only
CostBasisOfLastRows(df) ==
    LET last == {i \in 1..Len(df) : \A j \in 1..Len(df) : df[j].Ticker = df[i].Ticker => j <= i}
    IN  SumOver([i \in 1..Len(df) |-> IF i \in last THEN df[i]
                                       ELSE [df[i] EXCEPT !.CostBasis = 0]], "CostBasis")

\* portfolio_df['CostBasis'].sum()
TotalCurrentCostBasis(df) == SumOver(df, "CostBasis")

RECURSIVE SumOfSet(_, _)
\* sum of f[x] over x in S
SumOfSet(S, f) ==
    IF S = {} THEN 0
    ELSE LET x == CHOOSE y \in S : TRUE IN f[x] + SumOfSet(S \ {x}, f)

\* daily_total_values after the loop over quantity_map.keys(): a dict from
\* date to value, with a key for every date at least one processed ticker
\* has a (filled) close on
DailyTotalValues(df, cols) ==
    LET quantity_map == QuantityMap(df)
        index == FrameIndex(cols)
        processed_tickers == {t \in DOMAIN quantity_map : t \in DOMAIN cols}
        filled == [t \in processed_tickers |-> Ffill(cols[t], index)]
        keys == {d \in index : \E t \in processed_tickers : d \in DOMAIN filled[t]}
    IN  [d \in keys |->
            SumOfSet({t \in processed_tickers : d \in DOMAIN filled[t]},
                     [t \in processed_tickers |->
                        IF d \in DOMAIN filled[t] THEN filled[t][d] * quantity_map[t]
                        ELSE 0])]

RECURSIVE SortedSeq(_)
\* sorted(S) for a set of dates
SortedSeq(S) ==
    IF S = {} THEN <<>>
    ELSE LET m == CHOOSE x \in S : \A y \in S : x <= y
         IN  <<m>> \o SortedSeq(S \ {m})

\* a chart built without looking whether there is any date
ChartAlways(daily_total_values, total_current_cost_basis) ==
    LET sorted_dates == SortedSeq(DOMAIN daily_total_values)
        values == [i \in 1..Len(sorted_dates) |-> daily_total_values[sorted_dates[i]]]
    IN  [present |-> TRUE,
         dates |-> [i \in 1..Len(sorted_dates) |-> Strftime(sorted_dates[i])],
         values |-> values,
         gains |-> [i \in 1..Len(values) |-> values[i] - total_current_cost_basis]]

\* lines 101-106: None when no date has a value, else the chart data
ChartData(daily_total_values, total_current_cost_basis) ==
    IF DOMAIN daily_total_values = {} THEN NoChart
    ELSE LET sorted_dates == SortedSeq(DOMAIN daily_total_values)
             values == [i \in 1..Len(sorted_dates) |-> daily_total_values[sorted_dates[i]]]
         IN  [present |-> TRUE,
              dates |-> [i \in 1..Len(sorted_dates) |-> Strftime(sorted_dates[i])],
              values |-> values,
              gains |-> [i \in 1..Len(values) |-> values[i] - total_current_cost_basis]]

\* whether lines 79-87 find a Close group, and the frame hist_data they select
ClosePresent(feed) == feed.layout \in {"multi_close0", "multi_close1", "simple_close"}

get_historical_data(tickers, df, feed) ==
    IF tickers = {} \/ df = <<>> THEN NoChart
    ELSE IF feed.raises THEN NoChart
    ELSE IF RawEmpty(feed) THEN NoChart
    ELSE IF ~ClosePresent(feed) THEN NoChart
    ELSE ChartData(DailyTotalValues(df, feed.cols), TotalCurrentCostBasis(df))

---------------------------------------------------------------------------
(* index(): the valuation loop *)

Rat0 == RatOfInt(0)

ValuationRecord(ticker, short_name, quantity, avg_purchase_price, cost_basis, current_price, current_value, gain_loss, gain_loss_percent, currency, is_rsu) ==
    [ticker |-> ticker, short_name |-> short_name, quantity |-> quantity,
     avg_purchase_price |-> avg_purchase_price, cost_basis |-> cost_basis,
     current_price |-> current_price, current_value |-> current_value,
     gain_loss |-> gain_loss, gain_loss_percent |-> gain_loss_percent,
     currency |-> currency, is_rsu |-> is_rsu]

\* stands for stock_data.get(ticker) returning None
NoQuote == Quote(NoneP, "N/A", Name("", ""))

\* lines 136-137
AvgPurchasePrice(quantity, cost_basis) ==
    IF quantity # 0 THEN RatDiv(cost_basis, quantity) ELSE Rat0

\* line 139: evaluating the condition raises (the truth value of a
\* non-scalar comparison)
ConditionRaises(has_data, data) == has_data /\ data.current_price.kind = "obj"

\* line 139: data and data.get('current_price') is not None and
\* data['current_price'] > 0 (NaN > 0 is False)
QuoteAvailable(has_data, data) ==
    /\ has_data
    /\ data.current_price.kind # "none"
    /\ data.current_price.kind = "num"
    /\ data.current_price.val > 0

\* line 140
CurrentValue(quantity, current_price) == quantity * current_price

\* the gain as a fraction of the cost basis, not as a percentage
GainLossFraction(gain_loss, cost_basis) ==
    IF cost_basis # 0 THEN RatDiv(gain_loss, cost_basis) ELSE Rat0

\* line 142, with gain_loss_percent = 0 from line 132 when cost_basis is 0
GainLossPercent(gain_loss, cost_basis) ==
    IF cost_basis # 0 THEN RatTimes(RatDiv(gain_loss, cost_basis), 100) ELSE Rat0

\* lines 140-143 and 151: the record of a holding with an available quote
AvailableRecord(ticker, quantity, cost_basis, is_rsu, data) ==
    LET current_price == data.current_price.val
        current_value == CurrentValue(quantity, current_price)
        gain_loss == current_value - cost_basis
    IN  ValuationRecord(ticker, data.short_name, quantity,
                        AvgPurchasePrice(quantity, cost_basis), cost_basis,
                        current_price, current_value, gain_loss,
                        GainLossPercent(gain_loss, cost_basis), data.currency, is_rsu)

\* the record of a holding with no usable quote, its loss left at 0
UnavailableRecordNoLoss(ticker, quantity, cost_basis, is_rsu, has_data, data) ==
    ValuationRecord(ticker,
                    IF has_data THEN data.short_name ELSE Name(ticker, "(Not Found)"),
                    quantity, AvgPurchasePrice(quantity, cost_basis), cost_basis,
                    0, 0, 0,
                    IF cost_basis # 0 THEN RatOfInt(-100) ELSE Rat0,
                    IF has_data THEN data.currency ELSE "N/A", is_rsu)

\* lines 145-147 and 151: the record of a holding with no usable quote
UnavailableRecord(ticker, quantity, cost_basis, is_rsu, has_data, data) ==
    ValuationRecord(ticker,
                    IF has_data THEN data.short_name ELSE Name(ticker, "(Not Found)"),
                    quantity, AvgPurchasePrice(quantity, cost_basis), cost_basis,
                    0, 0, 0 - cost_basis,
                    IF cost_basis # 0 THEN RatOfInt(-100) ELSE Rat0,
                    IF has_data THEN data.currency ELSE "N/A", is_rsu)

\* the except branch appending the locals computed before the fault
CalcErrorRecordWithLocals(ticker, quantity, cost_basis, is_rsu) ==
    ValuationRecord(ticker, Name(ticker, "(Calc Error)"), quantity,
                    AvgPurchasePrice(quantity, cost_basis), cost_basis,
                    0, 0, 0, Rat0, "N/A", is_rsu)

\* line 152: the record appended by the except branch
CalcErrorRecord(ticker, quantity, cost_basis, is_rsu) ==
    ValuationRecord(ticker, Name(ticker, "(Calc Error)"), quantity, Rat0, cost_basis,
                    0, 0, 0, Rat0, "N/A", is_rsu)

\* One iteration of the loop of lines 128-152. The loader returns numeric
\* rows, so float() of line 135 does not raise; what can raise is the
\* condition of line 139, on a price that is no scalar number.
ProcessRow ==
    /\ pc = "loop"
    /\ idx <= Len(portfolio_df)
    /\ LET row == portfolio_df[idx]
           ticker == row.Ticker
           quantity == row.Quantity
           cost_basis == row.CostBasis
           has_data == ticker \in DOMAIN stock_data
           data == IF has_data THEN stock_data[ticker] ELSE NoQuote
           is_rsu == ticker \in RSU_TICKERS
           raises == ConditionRaises(has_data, data)
           rec == IF raises THEN CalcErrorRecord(ticker, quantity, cost_basis, is_rsu)
                  ELSE IF QuoteAvailable(has_data, data)
                       THEN AvailableRecord(ticker, quantity, cost_basis, is_rsu, data)
                       ELSE UnavailableRecord(ticker, quantity, cost_basis, is_rsu,
                                              has_data, data)
       IN  \* line 138 runs before the condition of line 139 is evaluated
           /\ total_portfolio_cost_basis' = total_portfolio_cost_basis + cost_basis
           /\ IF raises
              THEN UNCHANGED << total_portfolio_value, total_portfolio_gain_loss,
                                rsu_total_value, rsu_total_cost_basis, rsu_total_gain_loss,
                                non_rsu_total_value, non_rsu_total_cost_basis,
                                non_rsu_total_gain_loss >>
              ELSE /\ total_portfolio_value' = total_portfolio_value + rec.current_value
                   /\ total_portfolio_gain_loss' = total_portfolio_gain_loss + rec.gain_loss
                   /\ IF is_rsu
                      THEN /\ rsu_total_cost_basis' = rsu_total_cost_basis + cost_basis
                           /\ rsu_total_value' = rsu_total_value + rec.current_value
                           /\ rsu_total_gain_loss' = rsu_total_gain_loss + rec.gain_loss
                           /\ UNCHANGED << non_rsu_total_value, non_rsu_total_cost_basis,
                                           non_rsu_total_gain_loss >>
                      ELSE /\ non_rsu_total_cost_basis' = non_rsu_total_cost_basis + cost_basis
                           /\ non_rsu_total_value' = non_rsu_total_value + rec.current_value
                           /\ non_rsu_total_gain_loss' = non_rsu_total_gain_loss + rec.gain_loss
                           /\ UNCHANGED << rsu_total_value, rsu_total_cost_basis,
                                           rsu_total_gain_loss >>
           /\ portfolio_details' = Append(portfolio_details, rec)
    /\ idx' = idx + 1
    /\ UNCHANGED << pc, portfolio_df, stock_data, yf_answer, hist_feed, historical_data,
                    primary_currency >>

---------------------------------------------------------------------------
(* index(): the sort of the records (line 154) *)

\* the code points of a ticker: Python orders str by code point
CodePoints(t) ==
    CASE t = "" -> << >>
      [] t = "META" -> << 77, 69, 84, 65 >>
      [] t = "amd" -> << 97, 109, 100 >>

\* the code points of t.upper()
UpperCodePoints(t) ==
    CASE t = "" -> << >>
      [] t = "META" -> << 77, 69, 84, 65 >>
      [] t = "amd" -> << 65, 77, 68 >>

RECURSIVE SeqLess(_, _)
\* lexicographic order of two sequences of code points
SeqLess(a, b) ==
    IF b = << >> THEN FALSE
    ELSE IF a = << >> THEN TRUE
    ELSE IF a[1] # b[1] THEN a[1] < b[1]
    ELSE SeqLess(Tail(a), Tail(b))

\* order of the keys ignoring case
KeyLessIgnoringCase(a, b) == SeqLess(UpperCodePoints(a), UpperCodePoints(b))

\* x['ticker'] < y['ticker'] for the sort keys of line 154
KeyLess(a, b) == SeqLess(CodePoints(a), CodePoints(b))

RECURSIVE InsertByTicker(_, _)
\* r put into the sorted s behind every record whose key is not greater
InsertByTicker(s, r) ==
    IF s = << >> THEN << r >>
    ELSE IF KeyLess(r.ticker, s[1].ticker) THEN << r >> \o s
    ELSE << s[1] >> \o InsertByTicker(Tail(s), r)

RECURSIVE SortByTicker(_)
\* list.sort(key=lambda x: x['ticker']): a stable sort
SortByTicker(s) ==
    IF s = << >> THEN << >>
    ELSE InsertByTicker(SortByTicker(SubSeq(s, 1, Len(s) - 1)), s[Len(s)])

SortDetails ==
    /\ pc = "loop"
    /\ idx > Len(portfolio_df)
    /\ portfolio_details' = SortByTicker(portfolio_details)
    /\ pc' = "history"
    /\ UNCHANGED << portfolio_df, stock_data, idx, totals, yf_answer, hist_feed, historical_data,
                    primary_currency >>

---------------------------------------------------------------------------
(* index(): the display currency (lines 161-168) *)

\* every record's currency, whatever its value
AllCurrencies(details) ==
    LET kept == SelectSeq(details, LAMBDA p : p.currency # "N/A")
    IN  [i \in 1..Len(kept) |-> kept[i].currency]

\* line 163
ValidCurrencies(details) ==
    LET kept == SelectSeq(details, LAMBDA p : p.currency # "N/A" /\ p.current_value > 0)
    IN  [i \in 1..Len(kept) |-> kept[i].currency]

\* valid_currencies.count(c)
Count(list, c) == Cardinality({i \in 1..Len(list) : list[i] = c})

\* What max(set(valid_currencies), key=valid_currencies.count) can return:
\* max keeps the first maximal element in the iteration order of the set,
\* and a set of str iterates in hash order, which differs from run to run
MaxByCount(list) ==
    {c \in Range(list) : \A o \in Range(list) : Count(list, o) <= Count(list, c)}

\* line 168: next(p['currency'] for p in portfolio_details if p['currency'] != 'N/A')
FirstListedCurrency(details) ==
    LET named == SelectSeq(details, LAMBDA p : p.currency # "N/A")
    IN  IF named = << >> THEN "USD" ELSE named[1].currency

PickCurrency ==
    /\ pc = "currency"
    /\ LET valid_currencies == ValidCurrencies(portfolio_details)
       IN  IF portfolio_details = << >> THEN primary_currency' = "USD"
           ELSE IF valid_currencies # << >>
                THEN primary_currency' \in MaxByCount(valid_currencies)
                ELSE primary_currency' = FirstListedCurrency(portfolio_details)
    /\ pc' = "done"
    /\ UNCHANGED << portfolio_df, stock_data, idx, portfolio_details, totals, yf_answer, hist_feed,
                    historical_data >>

---------------------------------------------------------------------------
(* index(): the calls to the loader, to get_stock_data and to              *)
(* get_historical_data                                                     *)

\* line 112: the loader returns rows with a numeric Quantity > 0 and a
\* numeric CostBasis; lines 123-126 skip everything for an empty portfolio
LoadPortfolio ==
    /\ pc = "start"
    /\ portfolio_df' \in Portfolios
    /\ pc' = IF portfolio_df' = << >> THEN "currency" ELSE "fetch"
    /\ UNCHANGED << stock_data, idx, portfolio_details, totals, yf_answer, hist_feed,
                    historical_data, primary_currency >>

\* line 126
GetStockData ==
    /\ pc = "fetch"
    /\ LET tickers == UniqueTickers(portfolio_df)
           \* when yf.Tickers raises there is no answer per ticker to look at
           unasked == [t \in tickers \ {""} |->
                         Resp(TRUE, NoneP, "N/A", "", EmptyHist, FALSE, "N/A", "")]
       IN  \/ /\ yf_answer' = Answer(TRUE, unasked)
              /\ stock_data' = get_stock_data(tickers, TRUE, unasked)
           \/ \E info \in [tickers \ {""} -> Responses] :
                 /\ yf_answer' = Answer(FALSE, info)
                 /\ stock_data' = get_stock_data(tickers, FALSE, info)
    /\ pc' = "loop"
    /\ UNCHANGED << portfolio_df, idx, portfolio_details, totals, hist_feed,
                    historical_data, primary_currency >>

\* the feeds index() is run against: the download raises, or every held
\* ticker has one close on the first date
IndexFeeds(tickers) ==
    { RaisingFeed,
      Feed(FALSE, "multi_close0", [t \in tickers \ {""} |-> [d \in {1} |-> 1]]) }

\* line 155
FetchHistory ==
    /\ pc = "history"
    /\ hist_feed' \in IndexFeeds(UniqueTickers(portfolio_df))
    /\ historical_data' = get_historical_data(UniqueTickers(portfolio_df), portfolio_df,
                                              hist_feed')
    /\ pc' = "currency"
    /\ UNCHANGED << portfolio_df, stock_data, idx, portfolio_details, totals, yf_answer,
                    primary_currency >>

Init ==
    /\ pc = "start"
    /\ portfolio_df = << >>
    /\ stock_data = << >>
    /\ idx = 1
    /\ portfolio_details = << >>
    /\ total_portfolio_value = 0
    /\ total_portfolio_cost_basis = 0
    /\ total_portfolio_gain_loss = 0
    /\ rsu_total_value = 0
    /\ rsu_total_cost_basis = 0
    /\ rsu_total_gain_loss = 0
    /\ non_rsu_total_value = 0
    /\ non_rsu_total_cost_basis = 0
    /\ non_rsu_total_gain_loss = 0
    /\ yf_answer = NoAnswer
    /\ hist_feed = RaisingFeed
    /\ historical_data = NoChart
    /\ primary_currency = "USD"

Next ==
    \/ LoadPortfolio
    \/ GetStockData
    \/ ProcessRow
    \/ SortDetails
    \/ FetchHistory
    \/ PickCurrency

Spec == Init /\ [][Next]_vars

---------------------------------------------------------------------------
(* get_historical_data run on its own, over portfolios and feeds           *)

HistRows == {r \in Rows : r.CostBasis # 0}

HistPortfolios == SeqsUpTo(HistRows, MaxHoldings)

\* the closes of one column: a close on some of the dates
Series == UNION {[D -> Closes] : D \in SUBSET Dates}

\* a frame with a column for some of the names
ColsOver(names) == UNION {[N -> Series] : N \in SUBSET names}

\* What the download of `tickers` can answer. A download of several tickers
\* has a MultiIndex; the simple layout (one column group, the Close column
\* named 'Close') is what a download of a single ticker can have.
HistFeeds(requested) ==
    LET tickers == requested \ {""}
        one == [t \in tickers |-> [d \in {1} |-> 1]]
    IN  {RaisingFeed}
        \cup {Feed(FALSE, "multi_close0", c) : c \in ColsOver(tickers)}
        \cup {Feed(FALSE, "multi_close1", c) : c \in {one, [t \in tickers |-> << >>]}}
        \cup {Feed(FALSE, "multi_noclose", one)}
        \cup IF Cardinality(tickers) = 1
             THEN {Feed(FALSE, l, [n \in {"Close"} |-> [d \in {1} |-> 1]]) :
                      l \in {"simple_close", "simple_noclose"}}
             ELSE {}

InitHist ==
    /\ pc = "hist"
    /\ portfolio_df \in HistPortfolios
    /\ hist_feed \in HistFeeds(UniqueTickers(portfolio_df))
    /\ yf_answer = NoAnswer
    /\ stock_data = << >>
    /\ idx = 1
    /\ portfolio_details = << >>
    /\ total_portfolio_value = 0
    /\ total_portfolio_cost_basis = 0
    /\ total_portfolio_gain_loss = 0
    /\ rsu_total_value = 0
    /\ rsu_total_cost_basis = 0
    /\ rsu_total_gain_loss = 0
    /\ non_rsu_total_value = 0
    /\ non_rsu_total_cost_basis = 0
    /\ non_rsu_total_gain_loss = 0
    /\ historical_data = NoChart
    /\ primary_currency = "USD"

HistCall ==
    /\ pc = "hist"
    /\ historical_data' = get_historical_data(UniqueTickers(portfolio_df), portfolio_df,
                                              hist_feed)
    /\ pc' = "hist_done"
    /\ UNCHANGED << portfolio_df, stock_data, idx, portfolio_details, totals, yf_answer, hist_feed,
                    primary_currency >>

NextHist == HistCall

SpecHist == InitHist /\ [][NextHist]_vars

---------------------------------------------------------------------------
(* Properties of the valuation loop.                                       *)
(* While pc = "loop" the i-th record is the one emitted for the i-th row.  *)

InLoop == pc = "loop"

RowHasData(row) == row.Ticker \in DOMAIN stock_data
RowQuote(row) == IF RowHasData(row) THEN stock_data[row.Ticker] ELSE NoQuote

\* the quote of the row's ticker makes the computation raise
RowFaults(row) == RowHasData(row) /\ RowQuote(row).current_price.kind = "obj"

\* the quote is present with a defined price > 0
RowPriced(row) ==
    /\ RowHasData(row)
    /\ RowQuote(row).current_price.kind = "num"
    /\ RowQuote(row).current_price.val > 0

\* no entry, an undefined price (None, NaN) or a price <= 0
RowUnavailable(row) ==
    \/ ~RowHasData(row)
    \/ RowQuote(row).current_price.kind \in {"none", "nan"}
    \/ RowQuote(row).current_price.kind = "num" /\ RowQuote(row).current_price.val <= 0

\* r is the rational n / d
IsQuotient(r, n, d) == r[2] > 0 /\ r[1] * d = n * r[2]

FlaggedCalcError(p) == p.short_name.note = "(Calc Error)"

NonErrored(details) == SelectSeq(details, LAMBDA p : ~FlaggedCalcError(p))

\* what the specification asks of the record r of an unavailable row
UnavailableAsSpecified(row, r) ==
    /\ r.ticker = row.Ticker
    /\ r.quantity = row.Quantity
    /\ r.cost_basis = row.CostBasis
    /\ r.current_price = 0
    /\ r.current_value = 0
    /\ r.gain_loss = 0 - row.CostBasis
    /\ r.gain_loss_percent = IF row.CostBasis # 0 THEN << -100, 1 >> ELSE << 0, 1 >>
    /\ ~RowHasData(row) => r.short_name = Name(row.Ticker, "(Not Found)")

\* what the specification asks of the record r of a row with a price > 0
PricedAsSpecified(row, r) ==
    LET q == RowQuote(row)
    IN  /\ r.ticker = row.Ticker
        /\ r.quantity = row.Quantity
        /\ r.cost_basis = row.CostBasis
        /\ r.current_price = q.current_price.val
        /\ r.current_value = row.Quantity * q.current_price.val
        /\ r.gain_loss = r.current_value - row.CostBasis
        /\ IF row.CostBasis # 0
           THEN IsQuotient(r.gain_loss_percent, r.gain_loss * 100, row.CostBasis)
           ELSE r.gain_loss_percent = << 0, 1 >>
        /\ IF row.Quantity # 0
           THEN IsQuotient(r.avg_purchase_price, row.CostBasis, row.Quantity)
           ELSE r.avg_purchase_price = << 0, 1 >>
        /\ r.currency = q.currency
        /\ r.short_name = q.short_name

\* C1: the three global totals are the sums of cost_basis, current_value
\* and gain_loss over the emitted records not flagged '(Calc Error)': a
\* holding whose computation raises adds nothing to any of them.
C1_TotalsAreSumsOfNonErrored ==
    /\ total_portfolio_cost_basis = SumOver(NonErrored(portfolio_details), "cost_basis")
    /\ total_portfolio_value = SumOver(NonErrored(portfolio_details), "current_value")
    /\ total_portfolio_gain_loss = SumOver(NonErrored(portfolio_details), "gain_loss")

\* C2: the RSU subtotal plus the non-RSU subtotal is the global summary,
\* component by component.
C2_SubtotalsAddUp ==
    /\ rsu_total_cost_basis + non_rsu_total_cost_basis = total_portfolio_cost_basis
    /\ rsu_total_value + non_rsu_total_value = total_portfolio_value
    /\ rsu_total_gain_loss + non_rsu_total_gain_loss = total_portfolio_gain_loss

\* C3: the record of a holding whose quote is unavailable has current_price
\* 0, current_value 0, gain_loss -cost_basis and gain_loss_percent -100 (0
\* for a cost basis of 0), and the name '<ticker> (Not Found)' when there is
\* no quote entry; the record of every other holding is what its own row
\* and quote give, whether or not a holding beside it is unavailable.
C3_UnavailableQuote ==
    InLoop =>
        \A i \in 1..Len(portfolio_details) :
            LET row == portfolio_df[i]
                r == portfolio_details[i]
            IN  /\ RowUnavailable(row) => UnavailableAsSpecified(row, r)
                /\ (\E j \in 1..Len(portfolio_details) :
                        j # i /\ RowUnavailable(portfolio_df[j]))
                   => /\ RowPriced(row) => PricedAsSpecified(row, r)
                      /\ RowUnavailable(row) => UnavailableAsSpecified(row, r)

\* C3 witness: a holding with no quote entry and a cost basis was valued
\* '(Not Found)' at a full loss, beside a holding valued at its price.
C3_Witness ==
    /\ InLoop
    /\ Len(portfolio_details) = 2
    /\ ~RowHasData(portfolio_df[1])
    /\ portfolio_details[1].gain_loss = -3
    /\ portfolio_details[1].short_name.note = "(Not Found)"
    /\ RowPriced(portfolio_df[2])
    /\ portfolio_details[2].current_value > 0

\* C4: the record of a holding whose quote has a defined price > 0 has
\* current_value = quantity * current_price, gain_loss = current_value -
\* cost_basis, gain_loss_percent = gain_loss / cost_basis * 100 (0 for a cost
\* basis of 0), avg_purchase_price = cost_basis / quantity (0 for a quantity
\* of 0), and the currency and display name of the quote.
C4_PricedQuote ==
    InLoop =>
        \A i \in 1..Len(portfolio_details) :
            RowPriced(portfolio_df[i])
                => PricedAsSpecified(portfolio_df[i], portfolio_details[i])

\* C4 witness: 2 shares bought for 3 and quoted at 5 by a quote with a
\* display name of its own: value 10, gain 7, 700/3 percent, average 3/2.
C4_Witness ==
    /\ InLoop
    /\ \E i \in 1..Len(portfolio_details) :
          /\ RowPriced(portfolio_df[i])
          /\ portfolio_df[i].Quantity = 2
          /\ portfolio_df[i].CostBasis = 3
          /\ portfolio_details[i].current_value = 10
          /\ portfolio_details[i].gain_loss_percent = << 700, 3 >>
          /\ portfolio_details[i].avg_purchase_price = << 3, 2 >>
          /\ portfolio_details[i].short_name = Name("Long Name", "")

\* C5: the loop emits one record per row; the record of a row whose
\* computation raises is named '<ticker> (Calc Error)' with
\* avg_purchase_price, current_price, current_value, gain_loss and
\* gain_loss_percent all 0; and every row after it is valued as it is
\* without the fault.
C5_FaultIsolated ==
    /\ InLoop => Len(portfolio_details) = idx - 1
    /\ pc \in {"history", "currency", "done"}
          => Len(portfolio_details) = Len(portfolio_df)
    /\ InLoop =>
        \A i \in 1..Len(portfolio_details) :
            LET row == portfolio_df[i]
                r == portfolio_details[i]
            IN  /\ RowFaults(row) =>
                    /\ r.ticker = row.Ticker
                    /\ r.short_name = Name(row.Ticker, "(Calc Error)")
                    /\ r.avg_purchase_price = << 0, 1 >>
                    /\ r.current_price = 0
                    /\ r.current_value = 0
                    /\ r.gain_loss = 0
                    /\ r.gain_loss_percent = << 0, 1 >>
                /\ (\E k \in 1..(i - 1) : RowFaults(portfolio_df[k]))
                   => /\ RowPriced(row) => PricedAsSpecified(row, r)
                      /\ RowUnavailable(row) => UnavailableAsSpecified(row, r)
                      /\ ~RowFaults(row) => ~FlaggedCalcError(r)

\* C5 witness: the first of two rows raised, with a cost basis and a
\* quantity that give a nonzero average price, and the second row was
\* valued at its price.
C5_Witness ==
    /\ InLoop
    /\ Len(portfolio_details) = 2
    /\ RowFaults(portfolio_df[1])
    /\ portfolio_df[1].CostBasis = 3
    /\ FlaggedCalcError(portfolio_details[1])
    /\ RowPriced(portfolio_df[2])
    /\ portfolio_details[2].current_value > 0

---------------------------------------------------------------------------
(* Properties of the sort and of the display currency *)

\* the place of each ticker in the case-sensitive ordinal order of str:
\* the empty string first, then 'M' (77) before 'a' (97)
OrdinalRank(t) == CASE t = "" -> 0 [] t = "META" -> 1 [] t = "amd" -> 2

SortedByTicker(details) ==
    \A i, j \in 1..Len(details) :
        i < j => OrdinalRank(details[i].ticker) <= OrdinalRank(details[j].ticker)

Occurrences(list, x) == Cardinality({i \in 1..Len(list) : list[i] = x})

IsPermutation(a, b) ==
    /\ Len(a) = Len(b)
    /\ \A x \in Range(a) \cup Range(b) : Occurrences(a, x) = Occurrences(b, x)

\* C9: the list handed to presentation is sorted ascending by ticker in the
\* case-sensitive ordinal order, and the sort step leaves a permutation of
\* the records the loop emitted.
C9_SortedPermutation ==
    /\ [](pc \in {"history", "currency", "done"} => SortedByTicker(portfolio_details))
    /\ [][pc = "loop" /\ pc' = "history"
            => /\ IsPermutation(portfolio_details', portfolio_details)
               /\ SortedByTicker(portfolio_details')]_vars

\* C9 witness: rows loaded as amd, META were handed over as META, amd.
C9_Witness ==
    /\ pc = "done"
    /\ Len(portfolio_df) = 2
    /\ portfolio_df[1].Ticker = "amd"
    /\ portfolio_df[2].Ticker = "META"
    /\ portfolio_details[1].ticker = "META"
    /\ portfolio_details[2].ticker = "amd"

\* the currencies of the records that count: currency # 'N/A' and
\* current_value > 0, in record order
Qualifying(details) ==
    SelectSeq(details, LAMBDA p : p.currency # "N/A" /\ p.current_value > 0)

TimesQualifying(details, c) ==
    Cardinality({i \in 1..Len(details) :
                    /\ details[i].currency = c
                    /\ details[i].current_value > 0})

MostFrequentQualifying(details) ==
    {c \in Currencies :
        /\ TimesQualifying(details, c) > 0
        /\ \A o \in Currencies : TimesQualifying(details, o) <= TimesQualifying(details, c)}

\* the most frequent currency met first in record order
FirstMostFrequent(details) ==
    LET q == Qualifying(details)
        first == CHOOSE i \in 1..Len(q) :
                    /\ q[i].currency \in MostFrequentQualifying(details)
                    /\ \A j \in 1..(i - 1) : q[j].currency \notin MostFrequentQualifying(details)
    IN  q[first].currency

SomeNamedCurrency(details) == {details[i].currency : i \in 1..Len(details)} \ {"N/A"}

---------------------------------------------------------------------------
(* Properties of get_historical_data, under SpecHist *)

Returned == pc = "hist_done"

\* the call got as far as the aggregation of lines 90-100
Aggregated ==
    /\ Returned
    /\ portfolio_df # << >>
    /\ ~hist_feed.raises
    /\ FrameIndex(hist_feed.cols) # {}
    /\ hist_feed.layout \in {"multi_close0", "multi_close1", "simple_close"}

\* the held tickers that have a series in the feed
HeldWithSeries == {t \in UniqueTickers(portfolio_df) : t \in DOMAIN hist_feed.cols}

\* the dates of the series of the held tickers
HeldDates == UNION {DOMAIN hist_feed.cols[t] : t \in HeldWithSeries}

AllCostBasis ==
    SumOfSet(1..Len(portfolio_df), [i \in 1..Len(portfolio_df) |-> portfolio_df[i].CostBasis])

\* the quantity the aggregation uses for a ticker: that of its last row
QuantityOf(t) ==
    LET i == CHOOSE k \in 1..Len(portfolio_df) :
                /\ portfolio_df[k].Ticker = t
                /\ \A j \in (k + 1)..Len(portfolio_df) : portfolio_df[j].Ticker # t
    IN  portfolio_df[i].Quantity

\* quantity times the last close of t at or before d; 0 with no such close
ValueOn(t, d) ==
    LET col == hist_feed.cols[t]
        known == {e \in DOMAIN col : e <= d}
    IN  IF known = {} THEN 0
        ELSE QuantityOf(t) * col[CHOOSE e \in known : \A f \in known : f <= e]

\* the place of date d among the dates of the output
PlaceOf(d) == Cardinality({e \in HeldDates : e <= d})

\* C6: every gain of the output is the value of its date minus one
\* constant, the sum of cost_basis over all holdings, those without a
\* series included.
C6_GainIsValueMinusCost ==
    Returned /\ historical_data.present =>
        /\ Len(historical_data.gains) = Len(historical_data.values)
        /\ \A i \in 1..Len(historical_data.values) :
              historical_data.gains[i] = historical_data.values[i] - AllCostBasis

\* C6 witness: a chart of two dates was returned for a portfolio of two
\* tickers, one of them with no series.
C6_Witness ==
    /\ Returned
    /\ historical_data.present
    /\ Len(historical_data.gains) = 2
    /\ Len(portfolio_df) = 2
    /\ portfolio_df[1].Ticker # portfolio_df[2].Ticker
    /\ Cardinality(HeldWithSeries) = 1

\* C7: the output has one point for every date of the series of the held
\* tickers, and its value is the sum over the held tickers with a series of
\* the ticker's quantity times its last close at or before the date; a
\* ticker with no close yet adds nothing, and a held ticker without a series
\* is left out. (For a ticker held in several rows the quantity is that of
\* the last row.)
C7_ValueIsForwardFilledSum ==
    Aggregated =>
        IF HeldDates = {}
        THEN ~historical_data.present
        ELSE /\ historical_data.present
             /\ Len(historical_data.dates) = Cardinality(HeldDates)
             /\ Len(historical_data.values) = Cardinality(HeldDates)
             /\ \A d \in HeldDates :
                   /\ historical_data.dates[PlaceOf(d)] = Strftime(d)
                   /\ historical_data.values[PlaceOf(d)] =
                         SumOfSet(HeldWithSeries, [t \in HeldWithSeries |-> ValueOn(t, d)])

\* C7 witness: on the second date one held ticker has no close of its own
\* (its close of the first date is carried), another has its first close,
\* and the value of the first date counts the first ticker alone.
C7_Witness ==
    /\ Aggregated
    /\ historical_data.present
    /\ \E t, u \in HeldWithSeries :
          /\ DOMAIN hist_feed.cols[t] = {1}
          /\ DOMAIN hist_feed.cols[u] = {2}
          /\ historical_data.values[1] = QuantityOf(t) * hist_feed.cols[t][1]
          /\ historical_data.values[2] =
                QuantityOf(t) * hist_feed.cols[t][1] + QuantityOf(u) * hist_feed.cols[u][2]

\* C8: the result is absent when the holdings are empty, when the feed has
\* no series data and when no held ticker has a close on any date; a result
\* that is present has at least one point, as many values and gains as
\* dates, and strictly ascending dates.
C8_AbsentOrNonEmpty ==
    Returned =>
        /\ ( \/ portfolio_df = << >>
             \/ FrameIndex(hist_feed.cols) = {}
             \/ HeldDates = {} ) => ~historical_data.present
        /\ historical_data.present =>
              /\ Len(historical_data.dates) >= 1
              /\ Len(historical_data.values) = Len(historical_data.dates)
              /\ Len(historical_data.gains) = Len(historical_data.dates)
              /\ \A i, j \in 1..Len(historical_data.dates) :
                    i < j => DateStrLess(historical_data.dates[i], historical_data.dates[j])

\* C8 witness: the feed had closes and a Close group, no held ticker had a
\* series in it, and the result is absent.
C8_Witness ==
    /\ Aggregated
    /\ HeldDates = {}
    /\ ~historical_data.present

---------------------------------------------------------------------------
(* Properties of get_stock_data, as index() calls it *)

\* get_stock_data has returned to index()
Fetched == portfolio_df # << >> /\ pc \in {"loop", "history", "currency", "done"}

RequestedNonEmpty == UniqueTickers(portfolio_df) \ {""}

\* the fetch of t failed: the whole batch raised, or the fetch of t raised
FetchFailed(t) == yf_answer.global_raises \/ yf_answer.info[t].raises

\* the fetch of t went through and gave no price: none in fast_info and an
\* empty one-day history
YieldsNoPrice(t) ==
    /\ ~FetchFailed(t)
    /\ yf_answer.info[t].last_price.kind = "none"
    /\ yf_answer.info[t].hist.kind = "empty"

\* the fetch of t went through and fast_info had a price
FastPriced(t) == ~FetchFailed(t) /\ yf_answer.info[t].last_price.kind # "none"

\* C11: get_stock_data returns an entry for every non-empty requested
\* ticker, whichever fetches fail; a ticker whose fetch fails or gives no
\* price has current_price 0 and is valued as unavailable by the loop; when
\* the batch as a whole did not fail, the entry of a ticker is what its own
\* answer gives, whatever happened to the other tickers; when the batch
\* failed, every entry has current_price 0.
C11_FetchFailuresContained ==
    Fetched =>
        /\ DOMAIN stock_data = RequestedNonEmpty
        /\ \A t \in RequestedNonEmpty :
              /\ (FetchFailed(t) \/ YieldsNoPrice(t))
                    => stock_data[t].current_price = [kind |-> "num", val |-> 0]
              /\ (~yf_answer.global_raises /\ yf_answer.info[t].raises)
                    => stock_data[t] = Quote([kind |-> "num", val |-> 0], "N/A",
                                             Name(t, "(Fetch Error)"))
              /\ FastPriced(t)
                    => stock_data[t] =
                          Quote(yf_answer.info[t].last_price, yf_answer.info[t].currency,
                                Name(IF yf_answer.info[t].shortName = "" THEN t
                                     ELSE yf_answer.info[t].shortName, ""))
        /\ InLoop =>
              \A i \in 1..Len(portfolio_details) :
                 LET t == portfolio_df[i].Ticker
                 IN  (t # "" /\ (FetchFailed(t) \/ YieldsNoPrice(t)))
                        => /\ portfolio_details[i].current_price = 0
                           /\ portfolio_details[i].current_value = 0
                           /\ portfolio_details[i].gain_loss = 0 - portfolio_df[i].CostBasis
                           /\ ~FlaggedCalcError(portfolio_details[i])

\* C11 witness: the fetch of META raised and the batch went on; amd has the
\* entry of its own answer; META was valued at 0 and amd at its price.
C11_Witness ==
    /\ InLoop
    /\ Len(portfolio_details) = 2
    /\ portfolio_df[1].Ticker = "META"
    /\ portfolio_df[2].Ticker = "amd"
    /\ ~yf_answer.global_raises
    /\ yf_answer.info["META"].raises
    /\ stock_data["META"].current_price = Num(0)
    /\ stock_data["amd"] = Quote(Num(5), "EUR", Name("Long Name", ""))
    /\ portfolio_details[1].current_value = 0
    /\ portfolio_details[2].current_value > 0

====
